---- MODULE Spec2Model ----
(***************************************************************************)
(* Model of ros/src/waypoint_updater/waypoint_updater.py: the node that    *)
(* holds the track (base waypoints), tracks the car's position on it and   *)
(* publishes the lookahead window, the next-waypoint index and the signed  *)
(* distance to the next traffic light.                                     *)
(*                                                                         *)
(* Numbers.  The node computes in float64.  The model computes in fixed    *)
(* point: a coordinate or a distance d metres is the integer d * Unit, a   *)
(* squared distance is scaled by Unit * Unit, math.sqrt is the integer     *)
(* square root, and a quotient is kept as an exact fraction [n, d] that is *)
(* compared by cross multiplication.  A division by a zero denominator     *)
(* raises ZeroDivisionError as it does in Python.                          *)
(*                                                                         *)
(* Exceptions.  rospy catches an exception raised by a subscriber callback *)
(* and logs it; the node keeps running with whatever the callback had      *)
(* assigned before the raise.  err holds the exception of the last         *)
(* callback ("" when it returned normally).                                *)
(*                                                                         *)
(* Python lists are 0-based; the sequences of the model are 1-based, and   *)
(* At(s, i) reads the element the code writes s[i].                        *)
(***************************************************************************)
EXTENDS Integers, Sequences, FiniteSets, TLC

VARIABLES
    wps,          \* self.wps: the held track, a list of waypoints
    wp_ss,        \* self.wp_ss: the arc-length table
    avg_wp_dist,  \* self.avg_wp_dist as a fraction [n, d]; d = 0: not yet assigned
    prev_pt,      \* self.prev_pt: last position seen by nearest_waypoint
    prev_index,   \* self.prev_index: the sticky nearest index, -1 = unset
    next_pt,      \* self.next_pt: last result of next_waypoint, -1 = none
    ev,           \* the callback that ran last, its message and what it called
    out,          \* what that callback published
    err,          \* the exception that callback raised, "" if none
    loads         \* number of waypoints_cb calls that replaced the track

vars == <<wps, wp_ss, avg_wp_dist, prev_pt, prev_index, next_pt, ev, out, err, loads>>

-----------------------------------------------------------------------------
(* Program constants and the fixed-point resolution *)

LOOKAHEAD_WPS == 240

wp_ahead == 200

wp_behind == 5

Unit == 10

(* Bounds of the model *)

MaxLen == 4

MaxTL == 2

MaxLoads == 2

-----------------------------------------------------------------------------
(* Helpers for Python semantics *)

Min(a, b) == IF a < b THEN a ELSE b

Max(a, b) == IF a > b THEN a ELSE b

Abs(a) == IF a < 0 THEN -a ELSE a

At(s, i) == s[i + 1]

\* s[lo:hi] for 0 <= lo: Python clips hi to len(s) and yields [] when lo >= hi
PySlice(s, lo, hi) == SubSeq(s, lo + 1, Min(hi, Len(s)))

\* math.sqrt on fixed-point values: the largest r with r * r <= n (Newton's iteration)
RECURSIVE ISqrtFrom(_, _)
ISqrtFrom(n, r) ==
    LET r2 == (r + (n \div r)) \div 2
    IN  IF r2 >= r THEN r ELSE ISqrtFrom(n, r2)

Sqrt(n) == IF n = 0 THEN 0 ELSE ISqrtFrom(n, n)

RECURSIVE GCD(_, _)
GCD(a, b) == IF b = 0 THEN a ELSE GCD(b, a % b)

\* the quotient n / d, d > 0, as a fraction in lowest terms
Fraction(n, d) == LET g == GCD(n, d) IN [n |-> n \div g, d |-> d \div g]

-----------------------------------------------------------------------------
(* Geometry utilities *)

Pt(px, py, pz) == [x |-> px, y |-> py, z |-> pz]

Origin == Pt(0, 0, 0)

point_dist_sq(a, b) ==
    LET dx == a.x - b.x
        dy == a.y - b.y
        dz == a.z - b.z
    IN  dx * dx + dy * dy + dz * dz

point_dist(a, b) == Sqrt(point_dist_sq(a, b))

waypoint_to_point(wp) == wp.position

pose_to_point(pose) == pose.position

waypoints_to_vec(a, b) == <<b.x - a.x, b.y - a.y>>

dot_prod(a, b) == a[1] * b[1] + a[2] * b[2]

\* da / ac_dist as a fraction; exc is set when ac_dist is zero
line_ratio(a, b, c) ==
    LET ac == waypoints_to_vec(a, c)
        ab == waypoints_to_vec(a, b)
        da == dot_prod(ab, ac)
        ac_dist == point_dist(a, c)
    IN  IF ac_dist = 0
        THEN [exc |-> "ZeroDivisionError", n |-> 0, d |-> 1]
        ELSE [exc |-> "", n |-> da, d |-> ac_dist * Unit]

\* r1 > r2 for fractions with positive denominators
RatioGT(r1, r2) ==
    IF r1.d = r2.d THEN r1.n > r2.n ELSE r1.n * r2.d > r2.n * r1.d

-----------------------------------------------------------------------------
(* WaypointUpdater.waypoints_cb: the track model *)

\* mutant of ArcStep: the closing step from the last waypoint back to waypoint 0
\* is left out of the table
ArcStep_NoClosing(track, i) ==
    IF i = 0 \/ i = Len(track) THEN 0
    ELSE point_dist(waypoint_to_point(At(track, i - 1)), waypoint_to_point(At(track, i)))

\* d of line 302 in iteration i of the loop of lines 300-307: prev_pt is wps[0] in
\* iteration 0 and the point of iteration i-1 afterwards
ArcStep(track, i) ==
    LET cur_pt == waypoint_to_point(At(track, i % Len(track)))
        prev == waypoint_to_point(At(track, IF i = 0 THEN 0 ELSE (i - 1) % Len(track)))
    IN  point_dist(prev, cur_pt)

\* the values the iterations lo..hi of that loop append to self.wp_ss when s is s0
\* on entry (the iterations are split in halves to keep the evaluation shallow)
RECURSIVE ArcLengths(_, _, _, _)
ArcLengths(track, lo, hi, s0) ==
    IF lo > hi THEN <<>>
    ELSE IF lo = hi THEN <<s0 + ArcStep(track, lo)>>
    ELSE LET mid == (lo + hi) \div 2
             left == ArcLengths(track, lo, mid, s0)
         IN  left \o ArcLengths(track, mid + 1, hi, left[Len(left)])

\* the loop of lines 310-314 over range(lo, hi): the sum of the gaps between
\* consecutive waypoints (split in halves likewise)
RECURSIVE GapSum(_, _, _)
GapSum(track, lo, hi) ==
    IF lo >= hi THEN 0
    ELSE IF lo + 1 = hi
    THEN point_dist(waypoint_to_point(At(track, lo)), waypoint_to_point(At(track, lo - 1)))
    ELSE LET mid == (lo + hi) \div 2
         IN  GapSum(track, lo, mid) + GapSum(track, mid, hi)

\* mutant of waypoints_cb: the track is compared by content, not by length
waypoints_cb_ByContent(track) ==
    IF track = wps
    THEN [wps |-> wps, wp_ss |-> wp_ss, avg |-> avg_wp_dist, exc |-> "", replaced |-> FALSE]
    ELSE IF Len(track) = 0
    THEN [wps |-> track, wp_ss |-> wp_ss, avg |-> avg_wp_dist,
          exc |-> "IndexError", replaced |-> TRUE]
    ELSE LET table == wp_ss \o ArcLengths(track, 0, Len(track), 0)
         IN  IF Len(track) - 1 = 0
             THEN [wps |-> track, wp_ss |-> table, avg |-> [n |-> 0, d |-> 1],
                   exc |-> "ZeroDivisionError", replaced |-> TRUE]
             ELSE [wps |-> track, wp_ss |-> table,
                   avg |-> Fraction(GapSum(track, 1, Len(track)), Len(track) - 1),
                   exc |-> "", replaced |-> TRUE]

\* the state waypoints_cb leaves behind and the exception it raises
waypoints_cb(track) ==
    IF Len(track) = Len(wps)
    THEN [wps |-> wps, wp_ss |-> wp_ss, avg |-> avg_wp_dist, exc |-> "", replaced |-> FALSE]
    ELSE IF Len(track) = 0
    THEN \* self.wps[0] on the empty list
         [wps |-> track, wp_ss |-> wp_ss, avg |-> avg_wp_dist,
          exc |-> "IndexError", replaced |-> TRUE]
    ELSE LET table == wp_ss \o ArcLengths(track, 0, Len(track), 0)
         IN  IF Len(track) - 1 = 0
             THEN \* self.avg_wp_dist = 0. was assigned, the division raised
                  [wps |-> track, wp_ss |-> table, avg |-> [n |-> 0, d |-> 1],
                   exc |-> "ZeroDivisionError", replaced |-> TRUE]
             ELSE [wps |-> track, wp_ss |-> table,
                   avg |-> Fraction(GapSum(track, 1, Len(track)), Len(track) - 1),
                   exc |-> "", replaced |-> TRUE]

-----------------------------------------------------------------------------
(* WaypointUpdater.nearest_waypoint and next_waypoint: the position tracker *)

\* mutant of JumpReset: the sticky index survives every jump
JumpReset_Never(prev_dist, avg) == FALSE

\* prev_dist > .5*self.avg_wp_dist*wp_ahead, in fixed point
JumpReset(prev_dist, avg) == prev_dist * 2 * avg.d > avg.n * wp_ahead * Unit

\* mutant of Search: among equally near waypoints the last one found wins, as
\* dsq <= mindist would do
RECURSIVE Search_LastNearest(_, _, _, _)
Search_LastNearest(track, ppt, lo, hi) ==
    IF lo >= hi THEN -1
    ELSE IF lo + 1 = hi THEN lo
    ELSE LET mid == (lo + hi) \div 2
             a == Search_LastNearest(track, ppt, lo, mid)
             b == Search_LastNearest(track, ppt, mid, hi)
         IN  IF point_dist_sq(waypoint_to_point(At(track, b)), ppt)
                  <= point_dist_sq(waypoint_to_point(At(track, a)), ppt)
             THEN b ELSE a

\* the loop of lines 136-142 over range(lo, hi): the first index of the range
\* with the least squared distance to ppt, -1 for an empty range (the range is
\* split in halves; the later half wins only with a strictly smaller distance,
\* as dsq < mindist does)
RECURSIVE Search(_, _, _, _)
Search(track, ppt, lo, hi) ==
    IF lo >= hi THEN -1
    ELSE IF lo + 1 = hi THEN lo
    ELSE LET mid == (lo + hi) \div 2
             a == Search(track, ppt, lo, mid)
             b == Search(track, ppt, mid, hi)
         IN  IF point_dist_sq(waypoint_to_point(At(track, b)), ppt)
                  < point_dist_sq(waypoint_to_point(At(track, a)), ppt)
             THEN b ELSE a

\* mutant of RangeHi: the search always runs to the end of the track
RangeHi_WholeTrack(pidx) == Len(wps)

\* first index of rg and one past its last index
RangeLo(pidx) == IF pidx > -1 THEN Max(0, pidx - wp_behind) ELSE 0

RangeHi(pidx) == IF pidx > -1 THEN Min(Len(wps), pidx + wp_ahead + 1) ELSE Len(wps)

\* mutant of AtRangeEnd: only the last index of rg counts as an end
AtRangeEnd_UpperOnly(mini, lo, hi) == mini = hi - 1

\* whether the search result lies on an end of rg (line 144)
AtRangeEnd(mini, lo, hi) == mini = lo \/ mini = hi - 1

\* mutant of nearest_waypoint: the end-of-range rule of line 144 is applied to
\* bounded windows only, a full-track search keeps the index it found
nearest_waypoint_BoundedOnly(pose) ==
    LET ppt == pose_to_point(pose)
        prev_dist == point_dist_sq(ppt, prev_pt)
        pidx == IF JumpReset(prev_dist, avg_wp_dist) THEN -1 ELSE prev_index
        lo == RangeLo(pidx)
        hi == RangeHi(pidx)
        mini == Search(wps, ppt, lo, hi)
    IN  IF avg_wp_dist.d = 0
        THEN [exc |-> "AttributeError", ret |-> -1, prev_pt |-> prev_pt,
              prev_index |-> prev_index, reset |-> FALSE, lo |-> 0, hi |-> 0]
        ELSE IF lo >= hi
        THEN [exc |-> "IndexError", ret |-> -1, prev_pt |-> ppt,
              prev_index |-> mini, reset |-> pidx # prev_index, lo |-> lo, hi |-> hi]
        ELSE [exc |-> "", ret |-> mini, prev_pt |-> ppt,
              prev_index |-> IF pidx > -1 /\ AtRangeEnd(mini, lo, hi) THEN -1 ELSE mini,
              reset |-> pidx # prev_index, lo |-> lo, hi |-> hi]

nearest_waypoint(pose) ==
    LET ppt == pose_to_point(pose)
        prev_dist == point_dist_sq(ppt, prev_pt)
        pidx == IF JumpReset(prev_dist, avg_wp_dist) THEN -1 ELSE prev_index
        lo == RangeLo(pidx)
        hi == RangeHi(pidx)
        mini == Search(wps, ppt, lo, hi)
    IN  IF avg_wp_dist.d = 0
        THEN [exc |-> "AttributeError", ret |-> -1, prev_pt |-> prev_pt,
              prev_index |-> prev_index, reset |-> FALSE, lo |-> 0, hi |-> 0]
        ELSE IF lo >= hi
        THEN \* rg is empty: rg[0] raises after self.prev_index = mini
             [exc |-> "IndexError", ret |-> -1, prev_pt |-> ppt,
              prev_index |-> mini, reset |-> pidx # prev_index, lo |-> lo, hi |-> hi]
        ELSE [exc |-> "", ret |-> mini, prev_pt |-> ppt,
              prev_index |-> IF AtRangeEnd(mini, lo, hi) THEN -1 ELSE mini,
              reset |-> pidx # prev_index, lo |-> lo, hi |-> hi]

\* mutant of NextFrom: the neighbours of cur are clamped to the ends of the track
\* instead of wrapping around the loop
NextFrom_NoWrap(cur, ept) ==
    LET nwps == Len(wps)
    IN  IF nwps = 0 \/ cur < 0 \/ cur > Len(wps) - 1
        THEN [exc |-> "", ret |-> -1]
        ELSE LET cpt == waypoint_to_point(At(wps, cur))
                 ppt == waypoint_to_point(At(wps, Max(cur - 1, 0)))
                 nxt == Min(cur + 1, nwps - 1)
                 npt == waypoint_to_point(At(wps, nxt))
                 eratio == line_ratio(ppt, ept, npt)
                 cratio == line_ratio(ppt, cpt, npt)
             IN  IF eratio.exc # "" THEN [exc |-> eratio.exc, ret |-> -1]
                 ELSE IF cratio.exc # "" THEN [exc |-> cratio.exc, ret |-> -1]
                 ELSE [exc |-> "", ret |-> IF RatioGT(eratio, cratio) THEN nxt ELSE cur]

\* the index next_waypoint returns once nearest_waypoint has returned cur
NextFrom(cur, ept) ==
    LET nwps == Len(wps)
    IN  IF nwps = 0 \/ cur < 0 \/ cur > Len(wps) - 1
        THEN [exc |-> "", ret |-> -1]
        ELSE LET cpt == waypoint_to_point(At(wps, cur))
                 prev == (cur + nwps - 1) % nwps
                 ppt == waypoint_to_point(At(wps, prev))
                 nxt == (cur + 1) % nwps
                 npt == waypoint_to_point(At(wps, nxt))
                 eratio == line_ratio(ppt, ept, npt)
                 cratio == line_ratio(ppt, cpt, npt)
             IN  IF eratio.exc # "" THEN [exc |-> eratio.exc, ret |-> -1]
                 ELSE IF cratio.exc # "" THEN [exc |-> cratio.exc, ret |-> -1]
                 ELSE [exc |-> "", ret |-> IF RatioGT(eratio, cratio) THEN nxt ELSE cur]

next_waypoint(pose) ==
    LET near == nearest_waypoint(pose)
        nx == NextFrom(near.ret, pose_to_point(pose))
    IN  IF near.exc # ""
        THEN [exc |-> near.exc, ret |-> -1, near |-> near]
        ELSE [exc |-> nx.exc, ret |-> nx.ret, near |-> near]

-----------------------------------------------------------------------------
(* What a callback published: the topics written and the payload of each *)

Nothing ==
    [topics |-> {}, final_waypoints |-> <<>>, next_waypoint |-> -1, tl_distance |-> 0]

\* mutant of Lookahead: the waypoints from the start of the track are put in front
\* of the window instead of behind it
Lookahead_WrapFirst(track, np) ==
    LET wpsz == Len(track)
        end_pt0 == np + LOOKAHEAD_WPS
        past_zero_pt == end_pt0 - wpsz
        end_pt == Min(end_pt0, wpsz)
        head == PySlice(track, np, end_pt)
    IN  IF past_zero_pt > 0 THEN PySlice(track, 0, past_zero_pt) \o head ELSE head

\* olane.waypoints of lines 216-224 for a next_pt >= 0
Lookahead(track, np) ==
    LET wpsz == Len(track)
        end_pt0 == np + LOOKAHEAD_WPS
        past_zero_pt == end_pt0 - wpsz
        end_pt == Min(end_pt0, wpsz)
        head == PySlice(track, np, end_pt)
    IN  IF past_zero_pt > 0 THEN head \o PySlice(track, 0, past_zero_pt) ELSE head

-----------------------------------------------------------------------------
(* The messages the model delivers *)

Waypoint(px, py) == [position |-> Pt(px, py, 0)]

\* n waypoints on the x axis, step apart
Line(n, step) == [i \in 1..n |-> Waypoint((i - 1) * step, 0)]

\* n waypoints out along y = 0 and back along y = step: a closed loop
Ring(n, step) ==
    LET h == (n + 1) \div 2
    IN  [i \in 1..n |-> IF i - 1 < h THEN Waypoint((i - 1) * step, 0)
                                     ELSE Waypoint((n - i) * step, step)]

\* straight tracks of every length up to MaxLen, the unit square and a loop of
\* 20 waypoints 50 m apart (loop length 1000 m)
Tracks ==
    {Line(n, Unit) : n \in 0..MaxLen} \cup {Ring(4, Unit), Ring(20, 50 * Unit)}

\* positions near the short tracks and near waypoint 19 of the 20-waypoint loop
PosePoints ==
    {Pt(px, 0, 0) : px \in {0, 6, 14, 16}} \cup {Pt(0, 60 * Unit, 0)}

Poses == {[position |-> p] : p \in PosePoints}

\* tracks as long as the lookahead window and longer, and a short one
LongTracks ==
    {Line(LOOKAHEAD_WPS, Unit), Line(LOOKAHEAD_WPS + 60, Unit), Line(MaxLen, Unit)}

\* positions near waypoints 1, 100, 200, 238 and 295 of the long tracks
LongPoses ==
    {[position |-> Pt(px, 0, 0)] : px \in {14, 996, 1996, 2384, 2954}}

LongTrafficInputs == {-1, 1}

TrafficInputs == (-MaxTL)..MaxTL

-----------------------------------------------------------------------------
(* The node *)

Init ==
    /\ wps = <<>>
    /\ wp_ss = <<>>
    /\ avg_wp_dist = [n |-> 0, d |-> 0]
    /\ prev_pt = Origin
    /\ prev_index = -1
    /\ next_pt = -1
    /\ ev = [type |-> "init"]
    /\ out = Nothing
    /\ err = ""
    /\ loads = 0

\* mutant of WaypointsCb: a load that replaces the track also resets the tracker
WaypointsCb_ResetsTracker(track) ==
    LET r == waypoints_cb(track)
    IN  /\ Len(track) # Len(wps) => loads < MaxLoads
        /\ wps' = r.wps
        /\ wp_ss' = r.wp_ss
        /\ avg_wp_dist' = r.avg
        /\ loads' = IF r.replaced THEN loads + 1 ELSE loads
        /\ ev' = [type |-> "waypoints", msg |-> track]
        /\ out' = Nothing
        /\ err' = r.exc
        /\ IF r.replaced
           THEN prev_pt' = Origin /\ prev_index' = -1 /\ next_pt' = -1
           ELSE UNCHANGED <<prev_pt, prev_index, next_pt>>

WaypointsCb(track) ==
    LET r == waypoints_cb(track)
    IN  /\ Len(track) # Len(wps) => loads < MaxLoads
        /\ wps' = r.wps
        /\ wp_ss' = r.wp_ss
        /\ avg_wp_dist' = r.avg
        /\ loads' = IF r.replaced THEN loads + 1 ELSE loads
        /\ ev' = [type |-> "waypoints", msg |-> track]
        /\ out' = Nothing
        /\ err' = r.exc
        /\ UNCHANGED <<prev_pt, prev_index, next_pt>>

\* ev of a pose event also records the call of nearest_waypoint it made: the
\* tracker state on entry, the range rg it searched (lo up to hi exclusive), the
\* index it returned and the exception it raised
NoEntry == [prev_index |-> -1, prev_pt |-> Origin]

NoCall == [ret |-> -1, exc |-> "", lo |-> 0, hi |-> 0]

\* msg carries the position alone: the sequence number, the stamp and the
\* orientation are decoded for logging (lines 182-190) and reach no assignment
\* and no published value
\* mutant of PoseCb: self.next_pt keeps the nearest waypoint instead of the next
\* waypoint the event publishes
PoseCb_StoresNearest(msg) ==
    /\ UNCHANGED <<wps, wp_ss, avg_wp_dist, loads>>
    /\ IF Len(wps) = 0
       THEN /\ ev' = [type |-> "pose", msg |-> msg, called |-> FALSE,
                      entry |-> NoEntry, near |-> NoCall]
            /\ out' = Nothing
            /\ err' = ""
            /\ UNCHANGED <<prev_pt, prev_index, next_pt>>
       ELSE LET r == next_waypoint(msg)
            IN  /\ ev' = [type |-> "pose", msg |-> msg, called |-> TRUE,
                          entry |-> [prev_index |-> prev_index, prev_pt |-> prev_pt],
                          near |-> [ret |-> r.near.ret, exc |-> r.near.exc,
                                    lo |-> r.near.lo, hi |-> r.near.hi]]
                /\ prev_pt' = r.near.prev_pt
                /\ prev_index' = r.near.prev_index
                /\ err' = r.exc
                /\ next_pt' = IF r.exc # "" THEN next_pt ELSE r.near.ret
                /\ out' = IF r.exc # "" \/ r.ret < 0 THEN Nothing
                          ELSE [topics |-> {"final_waypoints", "next_waypoint"},
                                final_waypoints |-> Lookahead(wps, r.ret),
                                next_waypoint |-> r.ret, tl_distance |-> 0]

PoseCb(msg) ==
    /\ UNCHANGED <<wps, wp_ss, avg_wp_dist, loads>>
    /\ IF Len(wps) = 0
       THEN /\ ev' = [type |-> "pose", msg |-> msg, called |-> FALSE,
                      entry |-> NoEntry, near |-> NoCall]
            /\ out' = Nothing
            /\ err' = ""
            /\ UNCHANGED <<prev_pt, prev_index, next_pt>>
       ELSE LET r == next_waypoint(msg)
            IN  /\ ev' = [type |-> "pose", msg |-> msg, called |-> TRUE,
                          entry |-> [prev_index |-> prev_index, prev_pt |-> prev_pt],
                          near |-> [ret |-> r.near.ret, exc |-> r.near.exc,
                                    lo |-> r.near.lo, hi |-> r.near.hi]]
                /\ prev_pt' = r.near.prev_pt
                /\ prev_index' = r.near.prev_index
                /\ err' = r.exc
                /\ next_pt' = IF r.exc # "" THEN next_pt ELSE r.ret
                /\ out' = IF r.exc # "" \/ r.ret < 0
                          THEN Nothing
                          ELSE [topics |-> {"final_waypoints", "next_waypoint"},
                                final_waypoints |-> Lookahead(wps, r.ret),
                                next_waypoint |-> r.ret,
                                tl_distance |-> 0]

\* mutant of traffic_cb: the loop length is not added to a negative difference
traffic_cb_NoWrap(data) ==
    LET sgn == IF data < 0 THEN -1 ELSE 1
        next_tl == IF data < 0 THEN data * (-1) ELSE data
    IN  IF next_pt >= 0 /\ next_tl >= 0
        THEN IF next_tl >= Len(wp_ss) \/ next_pt >= Len(wp_ss)
             THEN [exc |-> "IndexError", val |-> 0]
             ELSE [exc |-> "", val |-> sgn * (At(wp_ss, next_tl) - At(wp_ss, next_pt))]
        ELSE [exc |-> "", val |-> sgn * (-1 * Unit)]

\* mutant of traffic_cb: the no-data value is published without the sign
traffic_cb_UnsignedNoData(data) ==
    LET sgn == IF data < 0 THEN -1 ELSE 1
        next_tl == IF data < 0 THEN data * (-1) ELSE data
        sz == Len(wps)
    IN  IF next_pt >= 0 /\ next_tl >= 0
        THEN IF next_tl >= Len(wp_ss) \/ next_pt >= Len(wp_ss)
             THEN [exc |-> "IndexError", val |-> 0]
             ELSE LET dist == At(wp_ss, next_tl) - At(wp_ss, next_pt)
                  IN  IF dist < 0
                      THEN IF sz >= Len(wp_ss)
                           THEN [exc |-> "IndexError", val |-> 0]
                           ELSE [exc |-> "", val |-> sgn * (dist + At(wp_ss, sz))]
                      ELSE [exc |-> "", val |-> sgn * dist]
        ELSE [exc |-> "", val |-> -1 * Unit]

\* the value traffic_cb publishes on tl_distance, or the exception it raises
traffic_cb(data) ==
    LET sgn == IF data < 0 THEN -1 ELSE 1
        next_tl == IF data < 0 THEN data * (-1) ELSE data
        sz == Len(wps)
    IN  IF next_pt >= 0 /\ next_tl >= 0
        THEN IF next_tl >= Len(wp_ss) \/ next_pt >= Len(wp_ss)
             THEN [exc |-> "IndexError", val |-> 0]
             ELSE LET dist == At(wp_ss, next_tl) - At(wp_ss, next_pt)
                  IN  IF dist < 0
                      THEN IF sz >= Len(wp_ss)
                           THEN [exc |-> "IndexError", val |-> 0]
                           ELSE [exc |-> "", val |-> sgn * (dist + At(wp_ss, sz))]
                      ELSE [exc |-> "", val |-> sgn * dist]
        ELSE [exc |-> "", val |-> sgn * (-1 * Unit)]

TrafficCb(data) ==
    LET r == traffic_cb(data)
    IN  /\ ev' = [type |-> "traffic", msg |-> data]
        /\ err' = r.exc
        /\ out' = IF r.exc # "" THEN Nothing
                  ELSE [Nothing EXCEPT !.topics = {"tl_distance"}, !.tl_distance = r.val]
        /\ UNCHANGED <<wps, wp_ss, avg_wp_dist, prev_pt, prev_index, next_pt, loads>>

Next ==
    \/ \E track \in Tracks : WaypointsCb(track)
    \/ \E msg \in Poses : PoseCb(msg)
    \/ \E data \in TrafficInputs : TrafficCb(data)

Spec == Init /\ [][Next]_vars

\* the same node fed with the long tracks
NextLong ==
    \/ \E track \in LongTracks : WaypointsCb(track)
    \/ \E msg \in LongPoses : PoseCb(msg)
    \/ \E data \in LongTrafficInputs : TrafficCb(data)

SpecLong == Init /\ [][NextLong]_vars

\* five collinear waypoints 1 m apart, and a loop of 300 waypoints 1 m apart
\* whose return leg runs 1 m beside the outbound leg (waypoint 298 lies 1 m
\* from waypoint 1)
NearTracks == {Line(5, Unit), Ring(300, Unit)}

\* positions 0.4 m and 0.7 m beside waypoint 1, beside waypoint 100, 7 m behind
\* it, 0.1 m past waypoint 2 and halfway between waypoints 0 and 1
NearPoses ==
    {[position |-> p] : p \in {Pt(10, 4, 0), Pt(10, 7, 0), Pt(1000, 4, 0),
                               Pt(930, -20, 0), Pt(21, 0, 0), Pt(5, 0, 0)}}

\* the same node fed with the tracks and poses that exercise the search window
NextNear ==
    \/ \E track \in NearTracks : WaypointsCb(track)
    \/ \E msg \in NearPoses : PoseCb(msg)
    \/ \E data \in LongTrafficInputs : TrafficCb(data)

SpecNear == Init /\ [][NextNear]_vars

-----------------------------------------------------------------------------
(* Vocabulary of the properties *)

PosePublished == ev.type = "pose" /\ "final_waypoints" \in out.topics

\* distance walked along the track from waypoint 0 to waypoint i, i = Len(track)
\* being waypoint 0 again after the closing step
RECURSIVE PathLen(_, _)
PathLen(track, i) ==
    IF i = 0 THEN 0
    ELSE PathLen(track, i - 1)
         + point_dist(waypoint_to_point(At(track, i - 1)),
                      waypoint_to_point(At(track, i % Len(track))))

\* distance walked forward around the loop from waypoint p to waypoint m
RECURSIVE ForwardArc(_, _, _)
ForwardArc(track, p, m) ==
    IF p = m THEN 0
    ELSE LET q == (p + 1) % Len(track)
         IN  point_dist(waypoint_to_point(At(track, p)), waypoint_to_point(At(track, q)))
             + ForwardArc(track, q, m)

\* the last event was a pose event that reached nearest_waypoint
NearCall == ev.type = "pose" /\ ev.called

\* squared distance from waypoint i of the held track to the point p
DistSqTo(i, p) == point_dist_sq(waypoint_to_point(At(wps, i)), p)

\* i is the lowest index of lo..hi-1 whose waypoint is nearest to p among the
\* waypoints lo..hi-1 of the held track
IsFirstNearest(i, lo, hi, p) ==
    /\ i \in lo..(hi - 1)
    /\ \A j \in lo..(hi - 1) :
           /\ DistSqTo(j, p) >= DistSqTo(i, p)
           /\ j < i => DistSqTo(j, p) > DistSqTo(i, p)

\* the squared distance in m^2 between p and q exceeds 0.5 * averageSpacing * 200,
\* the average spacing taken in m
Jumped(p, q) == point_dist_sq(p, q) * avg_wp_dist.d > 100 * Unit * avg_wp_dist.n

\* the last event was a pose event whose nearest_waypoint call returned from a
\* full-track search: the sticky index was unset on entry or the jump reset it
FullSearchCall ==
    /\ NearCall /\ ev.near.exc = ""
    /\ \/ ev.entry.prev_index = -1
       \/ Jumped(pose_to_point(ev.msg), ev.entry.prev_pt)

\* the last event was a pose event whose nearest_waypoint call returned from a
\* bounded-window search: the sticky index was valid on entry and no jump reset it
BoundedCall ==
    /\ NearCall /\ ev.near.exc = ""
    /\ ev.entry.prev_index > -1
    /\ ~Jumped(pose_to_point(ev.msg), ev.entry.prev_pt)

\* the window of a sticky index L: its first index and one past its last index
WindowLo(L) == Max(0, L - wp_behind)

WindowHi(L) == Min(Len(wps), L + wp_ahead + 1)

\* the bounded-window search of the last event selected an end of its window
BoundaryCall ==
    /\ BoundedCall
    /\ ev.near.ret \in {WindowLo(ev.entry.prev_index), WindowHi(ev.entry.prev_index) - 1}

\* projection of the point p onto the line from a to c, up to the positive
\* factor |ac|
Projection(p, a, c) == dot_prod(waypoints_to_vec(a, p), waypoints_to_vec(a, c))

\* no two waypoints of the track share a position
PairwiseDistinct(track) ==
    \A i, j \in 0..(Len(track) - 1) :
        i # j => waypoint_to_point(At(track, i)) # waypoint_to_point(At(track, j))

NonDecreasing(table) == \A i \in 1..(Len(table) - 1) : table[i] <= table[i + 1]

-----------------------------------------------------------------------------
(* C1: every pose event that publishes a lookahead window publishes exactly
   min(240, trackLength) waypoints; a track shorter than 240 waypoints never
   yields a window longer than the track. *)
C1_WindowLength ==
    PosePublished => Len(out.final_waypoints) = Min(LOOKAHEAD_WPS, Len(wps))

(* C2: the window a pose event publishes has at most 240 elements and its k-th
   element is track[(nextPt + k) mod trackLength], nextPt being the index the
   same event publishes on next_waypoint. *)
C2_WrappingSlice ==
    PosePublished =>
        /\ "next_waypoint" \in out.topics
        /\ out.next_waypoint \in 0..(Len(wps) - 1)
        /\ Len(out.final_waypoints) <= LOOKAHEAD_WPS
        /\ \A k \in 0..(Len(out.final_waypoints) - 1) :
               At(out.final_waypoints, k) = At(wps, (out.next_waypoint + k) % Len(wps))

\* 300 waypoints, nextPt = 200: track[200:300] followed by track[0:140]
C2_Witness ==
    /\ PosePublished
    /\ Len(wps) = 300
    /\ out.next_waypoint = 200
    /\ Len(out.final_waypoints) = 240
    /\ out.final_waypoints = SubSeq(wps, 201, 300) \o SubSeq(wps, 1, 140)

(* C3: with exactly one track loaded and a valid next-waypoint index p, a
   traffic-light event with input v whose magnitude m is a valid waypoint index
   publishes sign(v) * d, d = table[m] - table[p], plus table[trackLength] when
   that is negative; d is the forward arc length from p to m around the loop
   and 0 <= d <= loop length. *)
C3_TrafficDistance ==
    (ev.type = "traffic" /\ loads = 1 /\ next_pt >= 0 /\ Abs(ev.msg) < Len(wps)) =>
        LET m == Abs(ev.msg)
            raw == At(wp_ss, m) - At(wp_ss, next_pt)
            d == IF raw >= 0 THEN raw ELSE raw + At(wp_ss, Len(wps))
        IN  /\ err = ""
            /\ out.topics = {"tl_distance"}
            /\ out.tl_distance = (IF ev.msg < 0 THEN -1 ELSE 1) * d
            /\ d = ForwardArc(wps, next_pt, m)
            /\ 0 <= d /\ d <= At(wp_ss, Len(wps))

\* loop length 1000, table[p] = 950, table[m] = 50, red light: +100
C3_Witness ==
    /\ ev.type = "traffic" /\ ev.msg = 1 /\ loads = 1
    /\ Len(wps) = 20 /\ next_pt = 19
    /\ At(wp_ss, 20) = 1000 * Unit
    /\ At(wp_ss, 19) = 950 * Unit
    /\ At(wp_ss, 1) = 50 * Unit
    /\ out.tl_distance = 100 * Unit

(* C4: a traffic-light event arriving while the tracker has no next-waypoint
   index publishes the negative sentinel -1.0 on tl_distance, for negative
   inputs as well as non-negative ones. *)
C4_NoDataSentinel ==
    (ev.type = "traffic" /\ next_pt = -1) =>
        /\ "tl_distance" \in out.topics
        /\ out.tl_distance = -1 * Unit

(* C5 as stated: while no track has been loaded, every pose event and every
   traffic-light event publishes nothing and leaves the tracker state
   unchanged. *)
C5_IgnoredWithoutTrack ==
    [][(loads = 0 /\ ev'.type \in {"pose", "traffic"}) =>
           /\ out'.topics = {}
           /\ UNCHANGED <<prev_pt, prev_index, next_pt>>]_vars

(* C5 as amended: while no track has been loaded, a pose event publishes
   nothing, a traffic-light event publishes only the no-data value on
   tl_distance (-1.0 for a non-negative input, +1.0 for a negative one), and
   both leave the track, the table and the tracker state unchanged. *)
C5_WithoutTrack ==
    [][(loads = 0 /\ ev'.type \in {"pose", "traffic"}) =>
           /\ UNCHANGED <<wps, wp_ss, avg_wp_dist, prev_pt, prev_index, next_pt>>
           /\ err' = ""
           /\ ev'.type = "pose" => out' = Nothing
           /\ ev'.type = "traffic" =>
                  /\ out'.topics = {"tl_distance"}
                  /\ out'.tl_distance = (IF ev'.msg < 0 THEN Unit ELSE -1 * Unit)]_vars

C5_Witness ==
    /\ loads = 0 /\ ev.type = "traffic" /\ ev.msg < 0
    /\ out.topics = {"tl_distance"} /\ out.tl_distance = Unit

(* C6: after the first load of a track with N >= 2 waypoints the arc-length
   table has N+1 entries, entry 0 is 0, entry i is the sum of the distances
   between the consecutive waypoints 0..i, the entries are non-decreasing and
   entry N adds the wraparound pair (N-1 to 0). *)
C6_FirstTable ==
    (loads = 1 /\ Len(wps) >= 2) =>
        /\ Len(wp_ss) = Len(wps) + 1
        /\ At(wp_ss, 0) = 0
        /\ \A i \in 0..Len(wps) : At(wp_ss, i) = PathLen(wps, i)
        /\ NonDecreasing(wp_ss)

\* the unit square: 0, 1, 2, 3 and the loop length 4
C6_Witness ==
    /\ loads = 1 /\ wps = Ring(4, Unit)
    /\ wp_ss = <<0, Unit, 2 * Unit, 3 * Unit, 4 * Unit>>

(* C7: after any sequence of track loads, including loads that replace a held
   track by one of a different length, the arc-length table is derived from the
   held track alone: it has trackLength+1 entries, is non-decreasing, and its
   entry at index trackLength is the loop length of the held track.  Stated of
   every load of a track of two or more waypoints, onto no track or onto a held
   track of two or more waypoints. *)
C7_TableOfHeldTrack ==
    [][(ev'.type = "waypoints" /\ Len(ev'.msg) >= 2 /\ Len(wps) # 1) =>
           /\ Len(wp_ss') = Len(wps') + 1
           /\ NonDecreasing(wp_ss')
           /\ At(wp_ss', Len(wps')) = PathLen(wps', Len(wps'))]_vars

(* C8: a track load whose waypoint count equals that of the held track changes
   neither the held track nor the arc-length table nor the average spacing,
   even when the incoming waypoints differ in content. *)
C8_SameCountNoOp ==
    [][(ev'.type = "waypoints" /\ Len(ev'.msg) = Len(wps)) =>
           UNCHANGED <<wps, wp_ss, avg_wp_dist>>]_vars

\* a load of as many waypoints as are held, with other content, was ignored
C8_Witness ==
    /\ ev.type = "waypoints"
    /\ Len(ev.msg) = Len(wps) /\ Len(wps) >= 2
    /\ ev.msg # wps

(* C9: loading a track with 0 or 1 waypoints is rejected: the load raises no
   arithmetic or index error, the degenerate track does not become the held
   track, and no later pose event computes or publishes anything from it. *)
C9_DegenerateRejected ==
    /\ (ev.type = "waypoints" /\ Len(ev.msg) <= 1) => err = ""
    /\ Len(wps) # 1
    /\ (ev.type = "pose" /\ Len(wps) <= 1) => (err = "" /\ out = Nothing)

(* C10 as stated: with waypoints at x = 0, 1, 2 and a pose at x = 1.6,
   next_waypoint returns index 2. *)
C10_ReturnsTwo ==
    (ev.type = "pose" /\ wps = Line(3, Unit) /\ ev.msg.position = Pt(16, 0, 0)) =>
        (err = "" /\ next_pt = 2)

(* C10 as amended: with waypoints at x = 0, 1, 2 and a pose at x = 1.6, the
   nearest waypoint is index 2 and next_waypoint returns index 0, the successor
   of index 2 on the closed loop. *)
C10_ReturnsZero ==
    (ev.type = "pose" /\ wps = Line(3, Unit) /\ ev.msg.position = Pt(16, 0, 0)) =>
        /\ err = ""
        /\ next_pt = 0
        /\ out.next_waypoint = 0
        /\ Search(wps, pose_to_point(ev.msg), 0, Len(wps)) = 2

C10_Witness ==
    /\ ev.type = "pose" /\ wps = Line(3, Unit) /\ ev.msg.position = Pt(16, 0, 0)
    /\ next_pt = 0 /\ "next_waypoint" \in out.topics

(* C11: a nearest_waypoint call entered with the sticky index unset searches the
   entire track and returns the lowest index among the waypoints whose squared
   distance to the incoming position is minimal. *)
C11_FullSearchFirstNearest ==
    (NearCall /\ ev.entry.prev_index = -1) =>
        /\ ev.near.exc = ""
        /\ ev.near.lo = 0 /\ ev.near.hi = Len(wps)
        /\ IsFirstNearest(ev.near.ret, 0, Len(wps), pose_to_point(ev.msg))

\* five collinear waypoints 1 m apart, a pose 0.1 m past waypoint 2: index 2
C11_Witness ==
    /\ NearCall /\ ev.entry.prev_index = -1
    /\ wps = Line(5, Unit)
    /\ pose_to_point(ev.msg) = Pt(21, 0, 0)
    /\ ev.near.ret = 2

(* C12: every nearest_waypoint call records the incoming position as the last
   position; a call entered with a sticky index established at position X and
   a pose whose squared distance from X exceeds 0.5 * averageSpacing * 200
   searches the full track and returns the globally nearest waypoint. *)
C12_JumpSearchesFullTrack ==
    NearCall =>
        /\ prev_pt = pose_to_point(ev.msg)
        /\ (ev.entry.prev_index > -1
               /\ Jumped(pose_to_point(ev.msg), ev.entry.prev_pt)) =>
               /\ ev.near.exc = ""
               /\ ev.near.lo = 0 /\ ev.near.hi = Len(wps)
               /\ IsFirstNearest(ev.near.ret, 0, Len(wps), pose_to_point(ev.msg))

\* sticky index 100 established beside waypoint 100, then a pose 99 m away beside
\* waypoint 1: waypoint 1 is returned although it is outside [95, 300]
C12_Witness ==
    /\ NearCall /\ Len(wps) = 300
    /\ ev.entry.prev_index = 100 /\ ev.entry.prev_pt = Pt(1000, 4, 0)
    /\ pose_to_point(ev.msg) = Pt(10, 4, 0)
    /\ ev.near.ret = 1
    /\ ev.near.ret < ev.entry.prev_index - wp_behind
    /\ prev_pt = Pt(10, 4, 0)

(* C13: the index a traffic-light event measures from is the one the most
   recently completed pose event produced: a pose event that completes stores
   the index it produced (the one it publishes on next_waypoint), no other
   event and no pose event that returns early or raises changes the stored
   index, and the distance a traffic-light event publishes is computed from
   the stored index. *)
C13_IndexOfLastPose ==
    [][/\ (ev'.type = "pose" /\ ev'.called /\ err' = "") =>
              /\ next_pt' = next_waypoint(ev'.msg).ret
              /\ next_pt' = (IF "next_waypoint" \in out'.topics
                             THEN out'.next_waypoint ELSE -1)
       /\ (ev'.type = "pose" /\ ~(ev'.called /\ err' = "")) => next_pt' = next_pt
       /\ ev'.type = "waypoints" => next_pt' = next_pt
       /\ ev'.type = "traffic" =>
              /\ next_pt' = next_pt
              /\ (err' = "" /\ next_pt < 0) =>
                     out'.tl_distance \in {Unit, -1 * Unit}
              /\ (err' = "" /\ next_pt >= 0) =>
                     LET raw == At(wp_ss, Abs(ev'.msg)) - At(wp_ss, next_pt)
                         d == IF raw >= 0 THEN raw ELSE raw + At(wp_ss, Len(wps))
                     IN  out'.tl_distance = (IF ev'.msg < 0 THEN -1 ELSE 1) * d]_vars

\* a traffic-light event that measured forward around the loop from the index
\* the last pose event stored
C13_Witness ==
    /\ ev.type = "traffic" /\ ev.msg > 0 /\ err = ""
    /\ next_pt > ev.msg
    /\ At(wp_ss, ev.msg) < At(wp_ss, next_pt)
    /\ out.topics = {"tl_distance"}
    /\ out.tl_distance = At(wp_ss, ev.msg) - At(wp_ss, next_pt) + At(wp_ss, Len(wps))

(* C14 as stated: the boundary rule applies only to bounded windows; after a
   full-track search (sticky index unset on entry or just reset) the sticky
   index equals the returned index, also when that index is 0 or
   trackLength-1. *)
C14_FullSearchKeepsIndex ==
    FullSearchCall => prev_index = ev.near.ret

(* C14 as amended: the boundary rule applies to every search; after a
   full-track search the sticky index equals the returned index unless that
   index is 0 or trackLength-1, and then the sticky index is unset. *)
C14_EndRuleEverySearch ==
    FullSearchCall =>
        prev_index = (IF ev.near.ret \in {0, Len(wps) - 1} THEN -1 ELSE ev.near.ret)

\* a first pose at waypoint 0 of a track of four: index 0 is returned and the
\* sticky index stays unset
C14_Witness ==
    /\ FullSearchCall /\ ev.entry.prev_index = -1
    /\ Len(wps) = 4
    /\ ev.near.ret = 0
    /\ prev_index = -1

(* C15: a bounded-window search that selects the first or the last index of its
   window returns that index (the nearest of the window) and leaves the sticky
   index unset, and the nearest_waypoint call of the next pose event searches
   the entire track. *)
C15_BoundaryUnsetsSticky ==
    [][/\ BoundaryCall' =>
              /\ prev_index' = -1
              /\ IsFirstNearest(ev'.near.ret, WindowLo(ev'.entry.prev_index),
                                WindowHi(ev'.entry.prev_index), pose_to_point(ev'.msg))
       /\ (BoundaryCall /\ ev'.type = "pose" /\ ev'.called) =>
              /\ ev'.entry.prev_index = -1
              /\ ev'.near.exc = ""
              /\ IsFirstNearest(ev'.near.ret, 0, Len(wps), pose_to_point(ev'.msg))]_vars

\* sticky index 100 on the loop of 300, pose 7 m behind it: the window starts at
\* waypoint 95, which is returned although waypoint 93 is nearer
C15_Witness ==
    /\ BoundaryCall /\ Len(wps) = 300
    /\ ev.entry.prev_index = 100
    /\ pose_to_point(ev.msg) = Pt(930, -20, 0)
    /\ ev.near.ret = 95
    /\ DistSqTo(93, pose_to_point(ev.msg)) < DistSqTo(95, pose_to_point(ev.msg))
    /\ prev_index = -1

(* C16: a nearest_waypoint call entered with a sticky index L that is a valid
   index of the track, and without a jump reset, examines only the indices
   from max(0, L-5) up to min(trackLength, L+201) exclusive, never wrapping
   past the end of the track, and returns the nearest index of that range. *)
C16_BoundedWindow ==
    (/\ NearCall
     /\ ev.entry.prev_index \in 0..(Len(wps) - 1)
     /\ ~Jumped(pose_to_point(ev.msg), ev.entry.prev_pt)) =>
        LET L == ev.entry.prev_index
        IN  /\ ev.near.exc = ""
            /\ ev.near.lo = Max(0, L - 5)
            /\ ev.near.hi = Min(Len(wps), L + 201)
            /\ ev.near.lo <= ev.near.ret /\ ev.near.ret < ev.near.hi
            /\ IsFirstNearest(ev.near.ret, WindowLo(L), WindowHi(L), pose_to_point(ev.msg))

\* sticky index 1 on the loop of 300, pose 0.7 m beside waypoint 1: waypoint 298
\* on the return leg is nearer but lies outside the window 0..201
C16_Witness ==
    /\ BoundedCall /\ Len(wps) = 300
    /\ ev.entry.prev_index = 1
    /\ pose_to_point(ev.msg) = Pt(10, 7, 0)
    /\ ev.near.ret = 1
    /\ DistSqTo(298, pose_to_point(ev.msg)) < DistSqTo(1, pose_to_point(ev.msg))

(* C17: on a non-empty track next_waypoint returns the index cur found by
   nearest_waypoint or (cur+1) mod trackLength, the successor exactly when the
   projection of the vehicle position onto the line from waypoint cur-1 to
   waypoint cur+1 is strictly greater than the projection of waypoint cur; the
   result is a valid index. Checked on the tracks of two and more waypoints. *)
C17_CurOrSuccessor ==
    (NearCall /\ Len(wps) >= 2) =>
        /\ err = ""
        /\ LET N == Len(wps)
               cur == ev.near.ret
               e == pose_to_point(ev.msg)
               a == waypoint_to_point(At(wps, (cur + N - 1) % N))
               b == waypoint_to_point(At(wps, cur))
               c == waypoint_to_point(At(wps, (cur + 1) % N))
           IN  /\ next_pt \in 0..(N - 1)
               /\ next_pt = (IF Projection(e, a, c) > Projection(b, a, c)
                             THEN (cur + 1) % N ELSE cur)

(* C18: on a track of two or more waypoints with pairwise distinct positions
   next_waypoint never evaluates line_ratio with coinciding end points, so no
   pose event raises a division by zero. *)
C18_NoZeroDivision ==
    (NearCall /\ Len(wps) >= 2 /\ PairwiseDistinct(wps)) =>
        err # "ZeroDivisionError"

(* C19: every piece of state has one writing callback: a pose event leaves the
   track, the arc-length table and the average spacing unchanged, a track-load
   event leaves the sticky index, the last position and the last next-waypoint
   index unchanged, and a traffic-light event changes none of them. *)
C19_SingleWriter ==
    [][/\ ev'.type = "pose" => UNCHANGED <<wps, wp_ss, avg_wp_dist>>
       /\ ev'.type = "waypoints" => UNCHANGED <<prev_pt, prev_index, next_pt>>
       /\ ev'.type = "traffic" =>
              UNCHANGED <<wps, wp_ss, avg_wp_dist, prev_pt, prev_index, next_pt>>]_vars

\* a second track has just replaced the first and the tracker still holds the
\* sticky index, the position and the next-waypoint index of the last pose event
C19_Witness ==
    /\ ev.type = "waypoints" /\ loads = 2 /\ wps = ev.msg
    /\ prev_index > -1 /\ next_pt > -1 /\ prev_pt # Origin

(* C20: in every reachable state the sticky index and the last next-waypoint
   index are each -1 or a valid index of the held track, and no pose event
   searches an empty index range. Checked on the held tracks of two and more
   waypoints. *)
C20_IndicesOfHeldTrack ==
    Len(wps) >= 2 =>
        /\ prev_index \in -1..(Len(wps) - 1)
        /\ next_pt \in -1..(Len(wps) - 1)
        /\ NearCall => ev.near.exc # "IndexError"

====
